---- MODULE Spec2Model ----
(***************************************************************************)
(* Model of nithish-95/auto-complete: the plain trie of main.go (Tries),   *)
(* the contextual bigram trie (TrieA1), the frequency trie (TriesA2) and   *)
(* the quality measure of the comparison harness.                          *)
(*                                                                         *)
(* A string is the sequence of its code points.  A trie is the function    *)
(* from the path of every allocated node to that node's fields; the        *)
(* children map of node n holds c exactly when Append(n, c) is a node.     *)
(* A probability float64(a) / float64(b) is kept as the fraction           *)
(* [num |-> a, den |-> b].                                                 *)
(***************************************************************************)
EXTENDS Integers, Sequences, FiniteSets, TLC

VARIABLES tries,        \* main.go: the Tries of the line-oriented program
          trieA1,       \* TrieA1.root and everything below it
          bigramTable,  \* TrieA1.bigramTable
          pairs,        \* history: number of bigrams counted into the table
          trieA2,       \* TriesA2.root and everything below it
          calls,        \* history: number of Insert calls made per word
          out           \* the last call and what it returned

vars == <<tries, trieA1, bigramTable, pairs, trieA2, calls, out>>

----------------------------------------------------------------------------
(* Bounds and input sets *)

MaxInserts == 3     \* Insert calls per run
MaxCorpus == 3      \* length of the corpus given to BuildBigramTable
MaxPairs == 2       \* bigrams counted into the table per run
MaxK == 3           \* largest k given to TrieA1.Autocomplete
MaxFeed == 6        \* length of the corpus a comparison test builds from
MaxIdeal == 2       \* length of the ideal list given to the quality measure
MaxRanks == 11      \* distinct frequencies in a corpus of the ranking test
MaxExtra == 1       \* further words at the end of such a corpus

\* the key under which BuildBigramTable keeps a predecessor's total
TotalKey == <<"_", "t", "o", "t", "a", "l">>

Words == {<<>>, <<"a">>, <<"a", "b">>, TotalKey}

Prefixes == Words \cup {<<"_">>, <<"b">>, <<"a", "a">>}

Ks == (-1) .. MaxK

RECURSIVE SeqsUpTo(_, _)
SeqsUpTo(S, n) ==
    IF n = 0 THEN {<<>>}
    ELSE LET shorter == SeqsUpTo(S, n - 1)
         IN  shorter \cup {Append(s, x) : s \in shorter, x \in S}

\* the words of the corpora given to BuildBigramTable
CorpusWords == {<<>>, <<"a">>, TotalKey}

Corpora == SeqsUpTo(CorpusWords, MaxCorpus)

\* inputs of the comparison harness
QWords == {<<>>, <<"a">>, <<"a", "a">>, <<"a", "b">>, <<"b">>, <<"b", "a">>}

QPrefixes == {<<>>, <<"a">>, <<"b", "b">>}

QCorpora == UNION {[1 .. n -> QWords] : n \in 0 .. MaxFeed}

Ideals == SeqsUpTo({<<"a", "a">>, <<"c">>}, MaxIdeal)

\* inputs of the ranking test: a corpus in which the n-th word occurs n
\* times, so that more than ten completions have frequencies that differ,
\* followed by a few words that make some of them equal; and every short
\* corpus over Words
RankWords ==
    << <<"a">>, <<"a", "a">>, <<"a", "b">>, <<"b">>, <<"b", "a">>,
       <<"b", "b">>, <<"c">>, <<"c", "a">>, <<"c", "b">>, <<"d">>,
       <<"d", "a">>, <<"d", "b">> >>

RECURSIVE Repeat(_, _)
Repeat(w, n) == IF n = 0 THEN <<>> ELSE <<w>> \o Repeat(w, n - 1)

RECURSIVE Stair(_)
Stair(n) == IF n = 0 THEN <<>> ELSE Stair(n - 1) \o Repeat(RankWords[n], n)

RankCorpora ==
    {Stair(n) \o e :
        n \in 0 .. (IF MaxRanks < Len(RankWords) THEN MaxRanks
                    ELSE Len(RankWords)),
        e \in SeqsUpTo({RankWords[i] : i \in 1 .. Len(RankWords)}, MaxExtra)}
    \cup SeqsUpTo(Words, MaxCorpus)

RankPrefixes == {<<>>, <<"a">>, <<"e">>}

AllWords == Words \cup QWords \cup {RankWords[i] : i \in 1 .. Len(RankWords)}

----------------------------------------------------------------------------
(* Generic helpers *)

\* the nil node pointer: no path of code points
Nil == <<"nil">>

IsPrefixOf(p, w) == Len(p) <= Len(w) /\ SubSeq(w, 1, Len(p)) = p

Children(t, node) ==
    {n \in DOMAIN t : Len(n) = Len(node) + 1 /\ IsPrefixOf(node, n)}

RECURSIVE SumFn(_, _)
SumFn(f, S) ==
    IF S = {} THEN 0
    ELSE LET x == CHOOSE y \in S : TRUE IN f[x] + SumFn(f, S \ {x})

Range(s) == {s[i] : i \in 1 .. Len(s)}

Min(a, b) == IF a < b THEN a ELSE b

TotalCalls == SumFn(calls, DOMAIN calls)

\* a Go map read: the zero value when the key is absent
MapGet(m, key) == IF key \in DOMAIN m THEN m[key] ELSE 0

\* m[key]++ on a Go map
MapInc(m, key) ==
    IF key \in DOMAIN m THEN [m EXCEPT ![key] = @ + 1] ELSE m @@ (key :> 1)

EmptyMap == <<>>

----------------------------------------------------------------------------
(* main.go: Tries *)

NewNode == [isEndOfWord |-> FALSE]

initTries == (<<>> :> NewNode)

RECURSIVE Tries_InsertFrom(_, _, _)
Tries_InsertFrom(t, current, rest) ==
    IF rest = <<>>
    THEN [t EXCEPT ![current].isEndOfWord = TRUE]
    ELSE LET node == Append(current, Head(rest))
             t1 == IF node \in DOMAIN t THEN t ELSE t @@ (node :> NewNode)
         IN  Tries_InsertFrom(t1, node, Tail(rest))

Tries_Insert(t, word) == Tries_InsertFrom(t, <<>>, word)

RECURSIVE Tries_SearchFrom(_, _, _)
Tries_SearchFrom(t, current, rest) ==
    IF rest = <<>>
    THEN t[current].isEndOfWord
    ELSE LET node == Append(current, Head(rest))
         IN  IF node \notin DOMAIN t THEN FALSE
             ELSE Tries_SearchFrom(t, node, Tail(rest))

\* faulty variant: the end-of-word flag is not consulted
Tries_Search_AnyPath(t, word) == word \in DOMAIN t

Tries_Search(t, word) == Tries_SearchFrom(t, <<>>, word)

----------------------------------------------------------------------------
(* Algorithm_1: TrieA1 *)

NewTrieNodeA1 == [isEnd |-> FALSE, frequency |-> 0]

NewTrieA1 == (<<>> :> NewTrieNodeA1)

RECURSIVE TrieA1_InsertFrom(_, _, _)
TrieA1_InsertFrom(t, node, rest) ==
    IF rest = <<>>
    THEN [t EXCEPT ![node] = [isEnd |-> TRUE, frequency |-> @.frequency + 1]]
    ELSE LET child == Append(node, Head(rest))
             t1 == IF child \in DOMAIN t THEN t
                   ELSE t @@ (child :> NewTrieNodeA1)
         IN  TrieA1_InsertFrom(t1, child, Tail(rest))

\* faulty variant: the frequency is set, not incremented
TrieA1_Insert_Set(t, word) ==
    [TrieA1_InsertFrom(t, <<>>, word) EXCEPT ![word].frequency = 1]

TrieA1_Insert(t, word) == TrieA1_InsertFrom(t, <<>>, word)

RECURSIVE BuildBigramFrom(_, _, _)
BuildBigramFrom(bt, corpus, i) ==
    IF i > Len(corpus) - 1 THEN bt
    ELSE LET word1 == corpus[i]
             word2 == corpus[i + 1]
         IN  IF word1 \notin DOMAIN bt
             THEN BuildBigramFrom(bt @@ (word1 :> (TotalKey :> 0)), corpus, i)
             ELSE BuildBigramFrom(
                      [bt EXCEPT ![word1] = MapInc(MapInc(@, word2), TotalKey)],
                      corpus, i + 1)

\* faulty variant: the predecessor's total is not incremented
RECURSIVE BuildBigramFrom_NoTotal(_, _, _)
BuildBigramFrom_NoTotal(bt, corpus, i) ==
    IF i > Len(corpus) - 1 THEN bt
    ELSE LET word1 == corpus[i]
             word2 == corpus[i + 1]
         IN  IF word1 \notin DOMAIN bt
             THEN BuildBigramFrom_NoTotal(bt @@ (word1 :> (TotalKey :> 0)),
                                          corpus, i)
             ELSE BuildBigramFrom_NoTotal(
                      [bt EXCEPT ![word1] = MapInc(@, word2)], corpus, i + 1)

BuildBigramTable_NoTotal(bt, corpus) == BuildBigramFrom_NoTotal(bt, corpus, 1)

BuildBigramTable(bt, corpus) == BuildBigramFrom(bt, corpus, 1)

RECURSIVE searchPrefixFrom(_, _, _)
searchPrefixFrom(t, node, rest) ==
    IF rest = <<>> THEN node
    ELSE LET child == Append(node, Head(rest))
         IN  IF child \in DOMAIN t THEN searchPrefixFrom(t, child, Tail(rest))
             ELSE Nil

\* faulty variant: a missing child ends the descent at the last node reached
RECURSIVE searchPrefix_Longest(_, _)
searchPrefix_Longest(t, prefix) ==
    IF prefix \in DOMAIN t THEN prefix
    ELSE searchPrefix_Longest(t, SubSeq(prefix, 1, Len(prefix) - 1))

searchPrefix(t, prefix) == searchPrefixFrom(t, <<>>, prefix)

\* The depth-first walk.  It visits the children in the map's iteration
\* order, which Go leaves unspecified, so what is kept is the set of the
\* records it appends; the order is chosen where the list is sorted.
RECURSIVE dfs(_, _, _)
dfs(t, currentNode, path) ==
    (IF t[currentNode].isEnd
     THEN {[word |-> path, frequency |-> t[currentNode].frequency]}
     ELSE {})
    \cup UNION {dfs(t, child, Append(path, child[Len(child)])) :
                child \in Children(t, currentNode)}

\* faulty variant: the walk starts at the root
collectCompletions_Root(t, node, prefix) == dfs(t, <<>>, <<>>)

collectCompletions(t, node, prefix) == dfs(t, node, prefix)

\* float64 comparison a > b of two quotients with positive denominators
Greater(p, q) == p.num * q.den > q.num * p.den

\* faulty variant: ascending
RECURSIVE SortByProbability_Asc(_)
SortByProbability_Asc(S) ==
    IF S = {} THEN {<<>>}
    ELSE UNION {{<<x>> \o s : s \in SortByProbability_Asc(S \ {x})} :
                x \in {y \in S : \A z \in S :
                                ~Greater(y.probability, z.probability)}}

\* sort.Slice(ranked, probability descending): the sort is not stable and
\* its input order is the map iteration order, so every arrangement in
\* which no entry precedes one of strictly greater probability can result.
RECURSIVE SortByProbability(_)
SortByProbability(S) ==
    IF S = {} THEN {<<>>}
    ELSE UNION {{<<x>> \o s : s \in SortByProbability(S \ {x})} :
                x \in {y \in S : \A z \in S :
                                ~Greater(z.probability, y.probability)}}

\* faulty variant: the completions are counted, their frequencies not added
SumFrequency_Count(completions) == Cardinality(completions)

SumFrequency(completions) ==
    LET f == [c \in completions |-> c.frequency] IN SumFn(f, completions)

\* the entries of `ranked` before it is sorted
ContextualEntries(contextData, completions) ==
    {[word |-> c.word,
      probability |-> [num |-> MapGet(contextData, c.word),
                       den |-> contextData[TotalKey]]] : c \in completions}

\* faulty variant: every completion weighs the same
FrequencyEntries_Uniform(completions) ==
    {[word |-> c.word,
      probability |-> [num |-> 1, den |-> Cardinality(completions)]] :
     c \in completions}

FrequencyEntries(completions) ==
    {[word |-> c.word,
      probability |-> [num |-> c.frequency,
                       den |-> SumFrequency(completions)]] : c \in completions}

UsesContext(bt, prefix) == prefix \in DOMAIN bt

rankByContextualProbability(bt, prefix, completions) ==
    IF UsesContext(bt, prefix)
    THEN SortByProbability(ContextualEntries(bt[prefix], completions))
    ELSE SortByProbability(FrequencyEntries(completions))

\* faulty variant: the slice ends one entry early
Truncate_OneShort(ranked, k) ==
    LET k1 == IF k > Len(ranked) THEN Len(ranked) ELSE k
    IN  IF k1 < 0 THEN [panic |-> TRUE, res |-> <<>>]
        ELSE [panic |-> FALSE,
              res |-> SubSeq(ranked, 1, IF k1 > 0 THEN k1 - 1 ELSE 0)]

\* rankedCompletions[:k] after k was lowered to the length; a negative k is
\* a slice bound out of range, which panics
Truncate(ranked, k) ==
    LET k1 == IF k > Len(ranked) THEN Len(ranked) ELSE k
    IN  IF k1 < 0 THEN [panic |-> TRUE, res |-> <<>>]
        ELSE [panic |-> FALSE, res |-> SubSeq(ranked, 1, k1)]

\* every outcome the call can have
TrieA1_Autocomplete(t, bt, prefix, k) ==
    LET node == searchPrefix(t, prefix)
    IN  IF node = Nil
        THEN {[found |-> FALSE, completions |-> {}, ranked |-> <<>>,
               panic |-> FALSE, res |-> <<>>]}
        ELSE LET completions == collectCompletions(t, node, prefix)
             IN  {[found |-> TRUE, completions |-> completions,
                   ranked |-> r,
                   panic |-> Truncate(r, k).panic,
                   res |-> Truncate(r, k).res] :
                  r \in rankByContextualProbability(bt, prefix, completions)}

----------------------------------------------------------------------------
(* Algorithm_2: TriesA2 *)

A2Limit == 10

NewNodeA2 == [isEndOfWord |-> FALSE, frequency |-> 0]

initTriesA2 == (<<>> :> NewNodeA2)

RECURSIVE TriesA2_InsertFrom(_, _, _)
TriesA2_InsertFrom(t, current, rest) ==
    IF rest = <<>>
    THEN [t EXCEPT ![current] = [isEndOfWord |-> TRUE,
                                 frequency |-> @.frequency + 1]]
    ELSE LET node == Append(current, Head(rest))
             t1 == IF node \in DOMAIN t THEN t ELSE t @@ (node :> NewNodeA2)
         IN  TriesA2_InsertFrom(t1, node, Tail(rest))

TriesA2_Insert(t, word) == TriesA2_InsertFrom(t, <<>>, word)

RECURSIVE getFrequencyFrom(_, _, _)
getFrequencyFrom(t, current, rest) ==
    IF rest = <<>> THEN t[current].frequency
    ELSE LET node == Append(current, Head(rest))
         IN  IF node \notin DOMAIN t THEN 0
             ELSE getFrequencyFrom(t, node, Tail(rest))

getFrequency(t, word) == getFrequencyFrom(t, <<>>, word)

RECURSIVE collectWordsA2(_, _, _)
collectWordsA2(t, node, prefix) ==
    (IF t[node].isEndOfWord THEN {prefix} ELSE {})
    \cup UNION {collectWordsA2(t, child, Append(prefix, child[Len(child)])) :
                child \in Children(t, node)}

\* sort.Slice(results, getFrequency descending), as SortByProbability
RECURSIVE SortByFrequency(_, _)
SortByFrequency(t, S) ==
    IF S = {} THEN {<<>>}
    ELSE UNION {{<<x>> \o s : s \in SortByFrequency(t, S \ {x})} :
                x \in {y \in S : \A z \in S :
                                ~(getFrequency(t, z) > getFrequency(t, y))}}

\* faulty variant: the last ten are kept
LimitA2_Last(results) ==
    IF Len(results) > A2Limit
    THEN SubSeq(results, Len(results) - A2Limit + 1, Len(results))
    ELSE results

\* results = results[:10] when there are more than ten
LimitA2(results) ==
    IF Len(results) > A2Limit THEN SubSeq(results, 1, A2Limit) ELSE results

\* the descent of TriesA2.Autocomplete along the prefix
RECURSIVE descendA2(_, _, _)
descendA2(t, current, rest) ==
    IF rest = <<>> THEN current
    ELSE LET node == Append(current, Head(rest))
         IN  IF node \notin DOMAIN t THEN Nil
             ELSE descendA2(t, node, Tail(rest))

\* every list the call can return
TriesA2_Autocomplete(t, prefix) ==
    LET current == descendA2(t, <<>>, prefix)
    IN  IF current = Nil THEN {<<>>}
        ELSE {LimitA2(r) :
              r \in SortByFrequency(t, collectWordsA2(t, current, prefix))}

----------------------------------------------------------------------------
(* The calls and what they leave in `out` *)

NoOut ==
    [op |-> "none", word |-> <<>>, corpus |-> <<>>, k |-> 0,
     found |-> FALSE, completions |-> {}, ranked |-> <<>>, res |-> <<>>,
     resA2 |-> <<>>,
     panic |-> FALSE, qA1 |-> [num |-> 0, den |-> 1],
     qA2 |-> [num |-> 0, den |-> 1], preA1 |-> NewTrieA1, preA2 |-> initTriesA2,
     preTries |-> initTries, preTable |-> EmptyMap]

Idle == out.op = "none"

Called(op) ==
    [NoOut EXCEPT !.op = op, !.preA1 = trieA1, !.preA2 = trieA2,
                  !.preTries = tries, !.preTable = bigramTable]

Init ==
    /\ tries = initTries
    /\ trieA1 = NewTrieA1
    /\ bigramTable = EmptyMap
    /\ pairs = 0
    /\ trieA2 = initTriesA2
    /\ calls = [w \in AllWords |-> 0]
    /\ out = NoOut

\* t.Insert(w), the word given to the TrieA1 and to the TriesA2
Insert(w) ==
    /\ Idle
    /\ TotalCalls < MaxInserts
    /\ trieA1' = TrieA1_Insert(trieA1, w)
    /\ trieA2' = TriesA2_Insert(trieA2, w)
    /\ calls' = [calls EXCEPT ![w] = @ + 1]
    /\ out' = [Called("Insert") EXCEPT !.word = w]
    /\ UNCHANGED <<tries, bigramTable, pairs>>

\* the number of times the loop of BuildBigramTable runs
PairsIn(corpus) == IF Len(corpus) > 1 THEN Len(corpus) - 1 ELSE 0

\* t.BuildBigramTable(corpus): the pairs of the corpus are counted into the
\* table as it stands, whatever earlier calls left in it
Build(corpus) ==
    /\ Idle
    /\ pairs + PairsIn(corpus) <= MaxPairs
    /\ bigramTable' = BuildBigramTable(bigramTable, corpus)
    /\ pairs' = pairs + PairsIn(corpus)
    /\ out' = [Called("Build") EXCEPT !.corpus = corpus]
    /\ UNCHANGED <<tries, trieA1, trieA2, calls>>

AutocompleteA1(prefix, k) ==
    /\ Idle
    /\ \E r \in TrieA1_Autocomplete(trieA1, bigramTable, prefix, k) :
          out' = [Called("AutocompleteA1") EXCEPT
                    !.word = prefix, !.k = k, !.found = r.found,
                    !.completions = r.completions, !.ranked = r.ranked,
                    !.res = r.res, !.panic = r.panic]
    /\ UNCHANGED <<tries, trieA1, bigramTable, pairs, trieA2, calls>>

AutocompleteA2(prefix) ==
    /\ Idle
    /\ \E r \in TriesA2_Autocomplete(trieA2, prefix) :
          out' = [Called("AutocompleteA2") EXCEPT
                    !.word = prefix,
                    !.found = (descendA2(trieA2, <<>>, prefix) # Nil),
                    !.res = r]
    /\ UNCHANGED <<tries, trieA1, bigramTable, pairs, trieA2, calls>>

\* the caller has read the result and goes on
Return ==
    /\ ~Idle
    /\ out' = NoOut
    /\ UNCHANGED <<tries, trieA1, bigramTable, pairs, trieA2, calls>>

Next ==
    \/ \E w \in Words : Insert(w)
    \/ \E corpus \in Corpora : Build(corpus)
    \/ \E prefix \in Prefixes, k \in Ks : AutocompleteA1(prefix, k)
    \/ \E prefix \in Prefixes : AutocompleteA2(prefix)
    \/ Return

Spec == Init /\ [][Next]_vars

----------------------------------------------------------------------------
(* main.go: the plain trie on its own *)

TriesInsert(w) ==
    /\ Idle
    /\ TotalCalls < MaxInserts
    /\ tries' = Tries_Insert(tries, w)
    /\ calls' = [calls EXCEPT ![w] = @ + 1]
    /\ out' = [Called("TriesInsert") EXCEPT !.word = w]
    /\ UNCHANGED <<trieA1, bigramTable, pairs, trieA2>>

TriesSearch(w) ==
    /\ Idle
    /\ out' = [Called("TriesSearch") EXCEPT
                 !.word = w, !.found = Tries_Search(tries, w)]
    /\ UNCHANGED <<tries, trieA1, bigramTable, pairs, trieA2, calls>>

NextTries ==
    \/ \E w \in Words : TriesInsert(w)
    \/ \E w \in Prefixes : TriesSearch(w)
    \/ Return

SpecTries == Init /\ [][NextTries]_vars

----------------------------------------------------------------------------
(* The comparison harness: both tries built from the same words, one       *)
(* prefix given to both, the two answers scored against an ideal list      *)

TopK == 5

\* hits / len(ideal), and 1.0 for an empty ideal list.  The inner loop
\* only asks whether the ideal word occurs in `got` and stops at the first
\* occurrence, so `got` is given as the set of its words.
measureSuggestionQuality(got, ideal) ==
    IF Len(ideal) = 0 THEN [num |-> 1, den |-> 1]
    ELSE [num |-> Cardinality({i \in 1 .. Len(ideal) : ideal[i] \in got}),
          den |-> Len(ideal)]

\* wordsA1: the words of the suggestions, in their order
WordList(suggestions) == [i \in 1 .. Len(suggestions) |-> suggestions[i].word]

\* the insert loop of buildAlg1Trie: the trie so far and the index of the
\* next corpus word
RECURSIVE InsertAllA1(_, _)
InsertAllA1(loop, corpus) ==
    IF loop.i > Len(corpus) THEN loop.trie
    ELSE InsertAllA1([trie |-> TrieA1_Insert(loop.trie, corpus[loop.i]),
                      i |-> loop.i + 1], corpus)

\* the trie buildAlg1Trie returns: a new trie, every corpus word inserted,
\* then the bigram table built over the same corpus
buildAlg1Trie(corpus) ==
    [root |-> InsertAllA1([trie |-> NewTrieA1, i |-> 1], corpus),
     bigramTable |-> BuildBigramTable(EmptyMap, corpus)]

\* the insert loop of buildAlg2Trie
RECURSIVE InsertAllA2(_, _)
InsertAllA2(loop, corpus) ==
    IF loop.i > Len(corpus) THEN loop.trie
    ELSE InsertAllA2([trie |-> TriesA2_Insert(loop.trie, corpus[loop.i]),
                      i |-> loop.i + 1], corpus)

\* the trie buildAlg2Trie returns
buildAlg2Trie(corpus) == InsertAllA2([trie |-> initTriesA2, i |-> 1], corpus)

\* the first two statements of a test: both tries built from one corpus
BuildTriesFrom(corpora) ==
    /\ Idle
    /\ \E corpus \in corpora :
          /\ \E alg1 \in {buildAlg1Trie(corpus)} :
                /\ trieA1' = alg1.root
                /\ bigramTable' = alg1.bigramTable
          /\ trieA2' = buildAlg2Trie(corpus)
          /\ calls' = [w \in AllWords |->
                         Cardinality({i \in 1 .. Len(corpus) : corpus[i] = w})]
          /\ pairs' = PairsIn(corpus)
    /\ out' = Called("BuildTries")
    /\ UNCHANGED tries

BuildTries == BuildTriesFrom(QCorpora)

\* the rest of a comparison test, on the tries it has just built, for
\* every order the two sorts may leave equal keys in
QualityTest ==
    /\ out.op = "BuildTries"
    /\ \E prefix \in QPrefixes :
          \E q \in {<<measureSuggestionQuality(wordsA1, ideal),
                      measureSuggestionQuality(suggestionsA2, ideal)>> :
                    wordsA1 \in {Range(WordList(r.res)) :
                                 r \in TrieA1_Autocomplete(trieA1, bigramTable,
                                                           prefix, TopK)},
                    suggestionsA2 \in {Range(s) :
                                       s \in TriesA2_Autocomplete(trieA2,
                                                                  prefix)},
                    ideal \in Ideals} :
             out' = [NoOut EXCEPT !.op = "Quality", !.word = prefix,
                                  !.qA1 = q[1], !.qA2 = q[2]]
    /\ UNCHANGED <<tries, trieA1, bigramTable, pairs, trieA2, calls>>

NextQuality ==
    \/ BuildTries
    \/ QualityTest

SpecQuality == Init /\ [][NextQuality]_vars

----------------------------------------------------------------------------
(* The ranking test: both tries built from one corpus, one prefix given    *)
(* to both, with corpora of more than A2Limit different words              *)

BuildRanked == BuildTriesFrom(RankCorpora)

\* suggestionsA1 := trieA1.Autocomplete(prefix, k) and
\* suggestionsA2 := trieA2.Autocomplete(prefix) on the tries just built;
\* when the first call panics the second is not reached and suggestionsA2
\* is never assigned
Suggest(prefix, k) ==
    /\ out.op = "BuildTries"
    /\ \E r \in TrieA1_Autocomplete(trieA1, bigramTable, prefix, k) :
       \E s \in IF r.panic THEN {<<>>}
                 ELSE TriesA2_Autocomplete(trieA2, prefix) :
          out' = [NoOut EXCEPT
                    !.op = "Suggest", !.word = prefix, !.k = k,
                    !.found = r.found, !.completions = r.completions,
                    !.ranked = r.ranked, !.res = r.res, !.panic = r.panic,
                    !.resA2 = s]
    /\ UNCHANGED <<tries, trieA1, bigramTable, pairs, trieA2, calls>>

NextRank ==
    \/ BuildRanked
    \/ \E prefix \in RankPrefixes, k \in Ks : Suggest(prefix, k)

SpecRank == Init /\ [][NextRank]_vars

----------------------------------------------------------------------------
(* What the claims speak of *)

CallsOf(w) == IF w \in DOMAIN calls THEN calls[w] ELSE 0

\* the inserted words that start with p
Stored(p) == {w \in DOMAIN calls : calls[w] > 0 /\ IsPrefixOf(p, w)}

WordsOf(list) == {list[i].word : i \in 1 .. Len(list)}

NumSum(list) ==
    SumFn([i \in 1 .. Len(list) |-> list[i].probability.num],
          1 .. Len(list))

IsA1 == out.op = "AutocompleteA1"
IsA2 == out.op = "AutocompleteA2"

----------------------------------------------------------------------------
\* C1: after any sequence of Insert calls on the empty trie of main.go,
\* Search(w) is true exactly when w was the argument of one of the calls:
\* false for a proper prefix that was never inserted, false for a string
\* whose path leaves the trie.
C1_SearchIffInserted ==
    /\ \A w \in Prefixes : Tries_Search(tries, w) <=> CallsOf(w) > 0
    /\ out.op = "TriesSearch" => (out.found <=> CallsOf(out.word) > 0)

\* Search("a") answered false with "ab" stored and "a" never inserted
C1_Witness ==
    /\ out.op = "TriesSearch"
    /\ out.word = <<"a">>
    /\ calls[<<"a", "b">>] > 0
    /\ calls[<<"a">>] = 0
    /\ <<"a">> \in DOMAIN tries
    /\ ~out.found

\* C2: TrieA1.Autocomplete(p, k) returns only inserted words that start
\* with p, none of them twice, and all of them when k is at least their
\* number.
C2_ExactlyTheStoredCompletions ==
    IsA1 =>
        /\ WordsOf(out.res) \subseteq Stored(out.word)
        /\ Cardinality(WordsOf(out.res)) = Len(out.res)
        /\ out.k >= Cardinality(Stored(out.word))
               => WordsOf(out.res) = Stored(out.word)

\* Autocomplete("a", k) returned "a" and "ab" while "_total" is stored too
C2_Witness ==
    /\ IsA1
    /\ out.word = <<"a">>
    /\ out.k >= 2
    /\ WordsOf(out.res) = {<<"a">>, <<"a", "b">>}
    /\ calls[TotalKey] > 0

\* C3: inserting a stored word creates no node and adds exactly 1 to the
\* frequency of its node, every other node keeping its frequency and flag;
\* so a node's frequency is the number of Insert calls made with its string
\* and it is positive exactly when the node is flagged end-of-word.
C3_FrequencyCountsInserts ==
    /\ \A n \in DOMAIN trieA1 :
          /\ trieA1[n].frequency = CallsOf(n)
          /\ trieA1[n].frequency > 0 <=> trieA1[n].isEnd
    /\ \A n \in DOMAIN trieA2 :
          /\ trieA2[n].frequency = CallsOf(n)
          /\ trieA2[n].frequency > 0 <=> trieA2[n].isEndOfWord
    /\ (out.op = "Insert" /\ out.word \in DOMAIN out.preA1
                          /\ out.preA1[out.word].isEnd) =>
          /\ DOMAIN trieA1 = DOMAIN out.preA1
          /\ trieA1[out.word].frequency
                = out.preA1[out.word].frequency + 1
          /\ \A n \in DOMAIN trieA1 \ {out.word} : trieA1[n] = out.preA1[n]
          /\ DOMAIN trieA2 = DOMAIN out.preA2
          /\ trieA2[out.word].frequency
                = out.preA2[out.word].frequency + 1
          /\ \A n \in DOMAIN trieA2 \ {out.word} : trieA2[n] = out.preA2[n]

\* "ab" inserted again while "a" is stored as well
C3_Witness ==
    /\ out.op = "Insert"
    /\ out.word = <<"a", "b">>
    /\ <<"a", "b">> \in DOMAIN out.preA1
    /\ out.preA1[<<"a">>].isEnd
    /\ out.preA1[<<"a", "b">>].frequency = 1
    /\ trieA1[<<"a", "b">>].frequency = 2

\* C4: when some code point of the prefix has no child, Autocomplete of
\* TrieA1 and of TriesA2 returns the empty list, does not fail and leaves
\* the trie as it was.
C4_UnknownPrefixIsEmpty ==
    /\ (IsA1 /\ out.word \notin DOMAIN out.preA1) =>
          /\ out.res = <<>>
          /\ ~out.panic
    /\ (IsA2 /\ out.word \notin DOMAIN out.preA2) => out.res = <<>>
    /\ (IsA1 \/ IsA2) =>
          /\ trieA1 = out.preA1
          /\ trieA2 = out.preA2
          /\ bigramTable = out.preTable

\* Autocomplete("aa", -1) on a trie that holds "a" and "ab"
C4_Witness ==
    /\ IsA1
    /\ out.word = <<"a", "a">>
    /\ out.k < 0
    /\ calls[<<"a">>] > 0
    /\ calls[<<"a", "b">>] > 0
    /\ out.res = <<>>

\* C5: for a prefix present in the trie and any k, TrieA1.Autocomplete
\* returns min(k, completions) entries when k > 0 and the empty list when
\* k <= 0, and never fails.
C5_LengthIsMinOrEmpty ==
    (IsA1 /\ out.found) =>
        /\ ~out.panic
        /\ Len(out.res) = IF out.k > 0
                          THEN Min(out.k, Cardinality(out.completions))
                          ELSE 0

\* C6, as claimed: the probabilities of all completions of one query sum to
\* 1 on either branch, and the list is empty when there are none.
C6_SumsToOne ==
    (IsA1 /\ out.found /\ ~out.panic) =>
        /\ out.completions = {} => out.ranked = <<>>
        /\ out.completions # {} =>
              \A i \in 1 .. Len(out.ranked) :
                 NumSum(out.ranked) = out.ranked[i].probability.den

\* C6, amended: when the bigram table has no entry for the typed prefix the
\* probabilities of all completions sum to 1; when it has one, every
\* probability is a count of that entry over the entry's total; the list is
\* empty when there are no completions.
C6_FrequencyBranchSumsToOne ==
    (IsA1 /\ out.found) =>
        /\ out.completions = {} => out.ranked = <<>>
        /\ Len(out.ranked) = Cardinality(out.completions)
        /\ out.word \notin DOMAIN bigramTable =>
              \A i \in 1 .. Len(out.ranked) :
                 /\ out.ranked[i].probability.den >= 1
                 /\ NumSum(out.ranked) = out.ranked[i].probability.den
        /\ out.word \in DOMAIN bigramTable =>
              \A i \in 1 .. Len(out.ranked) :
                 /\ out.ranked[i].probability.den
                       = bigramTable[out.word][TotalKey]
                 /\ out.ranked[i].probability.num
                       = MapGet(bigramTable[out.word], out.ranked[i].word)

\* a frequency-ranked query over two completions of unequal frequency
C6_Witness ==
    /\ IsA1
    /\ out.word \notin DOMAIN bigramTable
    /\ Len(out.ranked) = 2
    /\ out.ranked[1].probability.num = 2
    /\ out.ranked[2].probability.num = 1
    /\ out.ranked[1].probability.den = 3

\* C7: every returned list is in non-increasing order of its rank key
\* (probability for TrieA1, frequency for TriesA2) and no completion left
\* out ranks strictly above a returned one.
C7_NonIncreasingAndTopK ==
    out.op = "Suggest" =>
        /\ \A i, j \in 1 .. Len(out.res) :
              i < j => ~Greater(out.res[j].probability,
                                out.res[i].probability)
        /\ \A c \in Range(out.ranked) \ Range(out.res) :
              \A r \in Range(out.res) :
                 ~Greater(c.probability, r.probability)
        /\ \A i, j \in 1 .. Len(out.resA2) :
              i < j => CallsOf(out.resA2[i]) >= CallsOf(out.resA2[j])
        /\ \A i \in 1 .. Len(out.resA2) :
              getFrequency(trieA2, out.resA2[i]) = CallsOf(out.resA2[i])
        /\ Range(out.resA2) \subseteq Stored(out.word)
        /\ out.panic => out.res = <<>> /\ out.resA2 = <<>>
        /\ ~out.panic =>
              /\ Len(out.resA2) = Min(A2Limit, Cardinality(Stored(out.word)))
              /\ \A w \in Stored(out.word) \ Range(out.resA2) :
                    \A r \in Range(out.resA2) : CallsOf(w) <= CallsOf(r)

\* both lists were cut: TrieA1 returned two entries of different
\* probability and left out one of strictly lower probability; TriesA2
\* returned ten of more than ten stored words, not all of one frequency,
\* and left out a word of strictly lower frequency than the last returned
C7_Witness ==
    /\ out.op = "Suggest"
    /\ ~out.panic
    /\ Len(out.res) = 2
    /\ Greater(out.res[1].probability, out.res[2].probability)
    /\ \E c \in Range(out.ranked) \ Range(out.res) :
          Greater(out.res[2].probability, c.probability)
    /\ Cardinality(Stored(out.word)) > A2Limit
    /\ Len(out.resA2) = A2Limit
    /\ CallsOf(out.resA2[1]) > CallsOf(out.resA2[A2Limit])
    /\ \E w \in Stored(out.word) \ Range(out.resA2) :
          CallsOf(w) < CallsOf(out.resA2[A2Limit])

\* the table without the entry of one predecessor
TableWithout(bt, w) == [x \in DOMAIN bt \ {w} |-> bt[x]]

\* C8: the typed prefix only selects the completions and is not the key
\* under which the bigram table is read: the call is given no preceding
\* word, so the ranking is what it would be without the prefix's own entry.
C8_PrefixIsNotTheContextKey ==
    (IsA1 /\ out.found /\ ~out.panic) =>
        out.ranked \in rankByContextualProbability(
                          TableWithout(bigramTable, out.word),
                          out.word, out.completions)

\* C9: when the bigram table has no entry for the context key, every
\* completion gets frequency(word) / sum of the completions' frequencies,
\* the list is ordered by it, and it is the order by frequency that
\* TriesA2 gives the same completions: no bigram count has a part in it.
C9_FallbackIsFrequencyRanking ==
    (IsA1 /\ out.found /\ out.word \notin DOMAIN bigramTable) =>
        /\ WordsOf(out.ranked) = Stored(out.word)
        /\ \A i \in 1 .. Len(out.ranked) :
              /\ out.ranked[i].probability.num = CallsOf(out.ranked[i].word)
              /\ out.ranked[i].probability.den
                    = SumFn(calls, Stored(out.word))
        /\ \A i, j \in 1 .. Len(out.ranked) :
              i < j => out.ranked[i].probability.num
                          >= out.ranked[j].probability.num
        /\ \A r2 \in TriesA2_Autocomplete(trieA2, out.word) :
              /\ Len(r2) = Len(out.ranked)
              /\ \A i \in 1 .. Len(r2) :
                    getFrequency(trieA2, r2[i])
                       = out.ranked[i].probability.num

\* "a" was only ever a successor in the corpus (so it has bigram counts
\* but no entry of its own) and its two completions differ in frequency
C9_Witness ==
    /\ IsA1
    /\ out.word = <<"a">>
    /\ <<"a">> \notin DOMAIN bigramTable
    /\ \E p \in DOMAIN bigramTable : MapGet(bigramTable[p], <<"a">>) > 0
    /\ Len(out.ranked) = 2
    /\ out.ranked[1].probability.num > out.ranked[2].probability.num

\* q1 >= q2 for two float64 quotients with positive denominators
AtLeast(q1, q2) == q1.num * q2.den >= q2.num * q1.den

\* C10, as claimed: with both tries built from the same words, the quality
\* of TrieA1.Autocomplete(prefix, 5) is at least that of
\* TriesA2.Autocomplete(prefix), whatever order the sorts leave ties in.
C10_ContextualAtLeastFrequency ==
    out.op = "Quality" => AtLeast(out.qA1, out.qA2)

\* C10, amended: it is so, the two qualities being equal, when the prefix
\* has at most 5 completions.
C10_EqualUpToFiveCompletions ==
    (out.op = "Quality" /\ Cardinality(Stored(out.word)) <= TopK) =>
        /\ AtLeast(out.qA1, out.qA2)
        /\ AtLeast(out.qA2, out.qA1)

\* five completions, ranked by the bigram entry of the prefix, half of the
\* ideal list found
C10_Witness ==
    /\ out.op = "Quality"
    /\ Cardinality(Stored(out.word)) = TopK
    /\ out.word \in DOMAIN bigramTable
    /\ out.qA1 = [num |-> 1, den |-> 2]
    /\ out.qA2 = [num |-> 1, den |-> 2]

\* the indices i < len - 1 of the corpus with corpus[i] = a
PredecessorAt(corpus, a) == {i \in 1 .. Len(corpus) - 1 : corpus[i] = a}

\* ... and corpus[i + 1] = b
PairAt(corpus, a, b) == {i \in PredecessorAt(corpus, a) : corpus[i + 1] = b}

\* the total BuildBigramTable keeps for predecessor a
StoredTotal(bt, a) == IF a \in DOMAIN bt THEN bt[a][TotalKey] ELSE 0

\* the count BuildBigramTable keeps for b following a
StoredCount(bt, a, b) == IF a \in DOMAIN bt THEN MapGet(bt[a], b) ELSE 0

\* C11: after BuildBigramTable(corpus) on the empty table, for all words a
\* and b the stored count of b under a is the number of i with
\* corpus[i] = a and corpus[i+1] = b, the stored total of a is the number of
\* i < len-1 with corpus[i] = a, which is the sum of a's successor counts,
\* and a has an entry exactly when it occurs at such an i; a corpus of
\* length 0 or 1 leaves the table empty.
C11_CountsArePairOccurrences ==
    (out.op = "Build" /\ out.preTable = EmptyMap) =>
        /\ \A a \in Words :
              /\ a \in DOMAIN bigramTable
                    <=> PredecessorAt(out.corpus, a) # {}
              /\ StoredTotal(bigramTable, a)
                    = Cardinality(PredecessorAt(out.corpus, a))
              /\ StoredTotal(bigramTable, a)
                    = SumFn([b \in Words |->
                               StoredCount(bigramTable, a, b)], Words)
              /\ \A b \in Words :
                    StoredCount(bigramTable, a, b)
                       = Cardinality(PairAt(out.corpus, a, b))
        /\ Len(out.corpus) <= 1 => bigramTable = EmptyMap

\* TrieA1.Autocomplete calls rankByContextualProbability whenever the
\* prefix node exists
RankingInvoked == IsA1 /\ out.found

\* C12, as claimed: no probability is computed with a denominator below 1,
\* and ranking is never invoked on an empty completion set.
C12_NoZeroDenominatorNoEmptyRanking ==
    RankingInvoked =>
        /\ \A i \in 1 .. Len(out.ranked) :
              out.ranked[i].probability.den >= 1
        /\ out.completions # {}

\* C12, amended: no probability is computed with a denominator below 1
\* (every entry of the bigram table has a total of at least 1, and
\* completions have frequencies that sum to at least 1); ranking is invoked
\* on an empty completion set as well, where it computes no probability and
\* returns the empty list.
C12_NoZeroDenominator ==
    /\ \A a \in DOMAIN bigramTable : StoredTotal(bigramTable, a) >= 1
    /\ RankingInvoked =>
          /\ \A i \in 1 .. Len(out.ranked) :
                out.ranked[i].probability.den >= 1
          /\ out.completions # {} => SumFrequency(out.completions) >= 1
          /\ out.completions = {} => out.ranked = <<>>

\* the bigram branch gave every one of two completions the probability
\* 0 over the entry's total
C12_Witness ==
    /\ RankingInvoked
    /\ out.word \in DOMAIN bigramTable
    /\ Len(out.ranked) = 2
    /\ \A i \in 1 .. 2 :
          /\ out.ranked[i].probability.num = 0
          /\ out.ranked[i].probability.den
                = StoredTotal(bigramTable, out.word)

====
